---- MODULE Spec2Model ----
(***************************************************************************)
(* Model of the task-filtering pipeline of ticktick-mcp:                   *)
(*   ticktick_filter_tasks -> TaskFilterer.filter                          *)
(*     -> _parse_filter_inputs -> _fetch_tasks_by_status                   *)
(*     -> _filter_task_list -> sort -> format_response                     *)
(* (src/ticktick_mcp/tools/filter_tools.py, src/ticktick_mcp/helpers.py).  *)
(*                                                                         *)
(* A date is a day number of one month (day d stands for 2024-03-0d).      *)
(* A piece of text that is meant to hold a date (a request bound, a task's *)
(* dueDate or completedTime) is a record of what is written in it:         *)
(*   kind  "none"      None / key absent                                   *)
(*         "empty"     ""                                                  *)
(*         "short"     fewer than 10 characters, e.g. "2024-03"            *)
(*         "garbage"   10 or more characters that are no ISO date          *)
(*         "date"      "2024-03-0d"                                        *)
(*         "datetime"  "2024-03-0dThh:30:00" followed, when aware, by the  *)
(*                     UTC offset "+oo:00"                                 *)
(***************************************************************************)
EXTENDS Integers, Sequences, FiniteSets, TLC

\* ------------------------------------------------------------------ bounds
\* Days of the modelled month: 1..MaxDay.
MaxDay == 3
\* Named projects in the client's state (the inbox comes on top of them).
NumProjects == 1

\* ------------------------------------------------------- program constants
\* Default of t.get('priority', 0) in the sort key.
DefaultPriority == 0
\* Length of the YYYY-MM-DD prefix _parse_due_date reads.
DatePrefixLen == 10

\* Encodings of a priority that is no number: the key is absent / is None.
MissingPriority == 0 - 1
NullPriority == 0 - 2

Days == 1..MaxDay
\* Optional[datetime.date]: None is NoDate, below every day.
NoDate == 0

\* ------------------------------------------------------------- date texts
NoneStr == [kind |-> "none", day |-> 0, hour |-> 0, aware |-> FALSE, off |-> 0]
EmptyStr == [kind |-> "empty", day |-> 0, hour |-> 0, aware |-> FALSE, off |-> 0]
ShortStr == [kind |-> "short", day |-> 0, hour |-> 0, aware |-> FALSE, off |-> 0]
GarbageStr == [kind |-> "garbage", day |-> 0, hour |-> 0, aware |-> FALSE, off |-> 0]
DateStr(d) == [kind |-> "date", day |-> d, hour |-> 0, aware |-> FALSE, off |-> 0]
NaiveStr(d, h) == [kind |-> "datetime", day |-> d, hour |-> h, aware |-> FALSE, off |-> 0]
AwareStr(d, h, o) == [kind |-> "datetime", day |-> d, hour |-> h, aware |-> TRUE, off |-> o]

\* Python truthiness of an Optional[str].
Truthy(s) == s.kind \notin {"none", "empty"}

\* len(s) of a date text, as far as the code looks at it.
StrLen(s) ==
    CASE s.kind \in {"none", "empty"} -> 0
      [] s.kind = "short" -> 7
      [] s.kind = "garbage" -> 12
      [] s.kind = "date" -> 10
      [] OTHER -> IF s.aware THEN 25 ELSE 19

\* datetime.datetime.fromisoformat(s) succeeds (otherwise ValueError).
FromIsoformatOk(s) == s.kind \in {"date", "datetime"}

\* ---------------------------------------------------------------- time zones
\* tz: None, two IANA names, and a name ZoneInfo does not know.
NoTz == "none"
TzNames == {NoTz, "UTC", "Asia/Seoul", "Mars/Phobos"}

\* ZoneInfo(tz) succeeds.
ZoneInfoOk(tz) == tz \in {"UTC", "Asia/Seoul"}

\* UTC offset, in hours, of a zone ZoneInfo knows.
UtcOffset(tz) == IF tz = "Asia/Seoul" THEN 9 ELSE 0

\* The calendar day an aware timestamp falls on in zone tz.
LocalDay(s, tz) == s.day + ((s.hour - s.off + UtcOffset(tz)) \div 24)

\* --------------------------------------------------------------- task records
\* An item of a list the remote service hands back.  dict = FALSE is an item
\* that is no dict at all; tags is the list under 'tags' (an absent key reads
\* as [] everywhere the code reads it).
Task(id, projectId, status, priority, tags, dueDate, completedTime) ==
    [dict |-> TRUE, id |-> id, projectId |-> projectId, status |-> status,
     priority |-> priority, tags |-> tags, dueDate |-> dueDate,
     completedTime |-> completedTime]

NonDictItem(id) ==
    [dict |-> FALSE, id |-> id, projectId |-> "", status |-> 0,
     priority |-> MissingPriority, tags |-> <<>>, dueDate |-> NoneStr,
     completedTime |-> NoneStr]

\* The elements of a sequence.
Range(seq) == {seq[i] : i \in 1..Len(seq)}

\* ------------------------------------------------------------ pure helpers
\* helpers._parse_due_date: the date written in the first ten characters.
_parse_due_date(due_date_str) ==
    IF ~Truthy(due_date_str) THEN NoDate
    ELSE IF StrLen(due_date_str) >= DatePrefixLen
         THEN IF due_date_str.kind \in {"date", "datetime"}
              THEN due_date_str.day
              ELSE NoDate
         ELSE NoDate

\* TaskFilterer._parse_optional_iso_date: both .date() calls give the day as
\* written (replace(tzinfo=...) does not shift it); the date.fromisoformat
\* fallback accepts nothing datetime.fromisoformat rejected.
_parse_optional_iso_date(date_iso, tz) ==
    IF ~Truthy(date_iso) THEN NoDate
    ELSE IF FromIsoformatOk(date_iso) THEN date_iso.day
    ELSE IF date_iso.kind = "date" THEN date_iso.day
    ELSE NoDate

\* Mutant: now() is taken in the system zone, tz is not looked at.
_get_current_date_local(tz, clk) == LocalDay(clk.utc, clk.zone)

\* TaskFilterer._get_current_date: now() in tz, or in the system zone when tz
\* is None or unknown.  clk is the wall clock: a UTC timestamp and the system
\* zone.
_get_current_date(tz, clk) ==
    IF tz # NoTz /\ ZoneInfoOk(tz)
    THEN LocalDay(clk.utc, tz)
    ELSE LocalDay(clk.utc, clk.zone)

\* ---------------------------------------------------------- exact-match filters
\* filters_json and the dict json.loads makes of it: kind "none" (None),
\* "invalid" (no JSON), "nonobject" (JSON, but no object), "object" with the
\* keys it holds and their values.
FiltersJson(kind, keys, priority, projectId, tags) ==
    [kind |-> kind, keys |-> keys, priority |-> priority,
     projectId |-> projectId, tags |-> tags]

NoFiltersJson == FiltersJson("none", {}, 0, "", <<>>)
InvalidFiltersJson == FiltersJson("invalid", {}, 0, "", <<>>)
NonObjectFiltersJson == FiltersJson("nonobject", {}, 0, "", <<>>)
EmptyFilters == FiltersJson("object", {}, 0, "", <<>>)

\* Mutant: a filter value that is falsy (priority 0) counts as not given.
KeyMatchesFalsyUnset(task, filters, key) ==
    CASE key = "tags" -> Range(task.tags) = Range(filters.tags)
      [] key = "priority" ->
            \/ filters.priority = 0
            \/ /\ task.priority # MissingPriority
               /\ task.priority = filters.priority
      [] key = "projectId" -> task.projectId = filters.projectId
      [] OTHER -> FALSE

\* Mutant: the tags of the filter need only be among the tags of the task.
KeyMatchesTagsAmong(task, filters, key) ==
    CASE key = "tags" -> Range(filters.tags) \subseteq Range(task.tags)
      [] key = "priority" ->
            /\ task.priority # MissingPriority
            /\ task.priority = filters.priority
      [] key = "projectId" -> task.projectId = filters.projectId
      [] OTHER -> FALSE

\* One key of the filters against one task (lines 88-95).
KeyMatches(task, filters, key) ==
    CASE key = "tags" -> Range(task.tags) = Range(filters.tags)
      [] key = "priority" ->
            /\ task.priority # MissingPriority
            /\ task.priority = filters.priority
      [] key = "projectId" -> task.projectId = filters.projectId
      [] OTHER -> FALSE

\* Mutant: the loop breaks at the first task that fails a key, where the code
\* goes on to the next task.
RECURSIVE _apply_json_filters_loop_break(_, _)
_apply_json_filters_loop_break(tasks, filters) ==
    IF tasks = <<>> THEN <<>>
    ELSE LET task == Head(tasks)
         IN IF ~task.dict THEN _apply_json_filters_loop_break(Tail(tasks), filters)
            ELSE IF \A key \in filters.keys : KeyMatches(task, filters, key)
                 THEN <<task>> \o _apply_json_filters_loop_break(Tail(tasks), filters)
                 ELSE <<>>

\* Lines 80-98: the loop over the tasks.
RECURSIVE _apply_json_filters_loop(_, _)
_apply_json_filters_loop(tasks, filters) ==
    IF tasks = <<>> THEN <<>>
    ELSE LET task == Head(tasks)
             rest == _apply_json_filters_loop(Tail(tasks), filters)
         IN IF ~task.dict THEN rest
            ELSE IF \A key \in filters.keys : KeyMatches(task, filters, key)
                 THEN <<task>> \o rest
                 ELSE rest

\* TaskFilterer._apply_json_filters.
_apply_json_filters(tasks, filters) ==
    IF filters.keys = {} THEN tasks
    ELSE _apply_json_filters_loop(tasks, filters)

\* ------------------------------------------------------------ _filter_task_list
\* tag_label: None (and '', which is as falsy) is NoTag.
NoTag == ""

\* Mutant: only a start bound shuts out a task without a due date.
DueDateMissingStartOnly(due_date, filter_due_start_date, filter_due_end_date) ==
    filter_due_start_date # NoDate /\ due_date = NoDate

\* Line 242: a bound is in effect and the task has no readable due date.
DueDateMissing(due_date, filter_due_start_date, filter_due_end_date) ==
    /\ (filter_due_start_date # NoDate \/ filter_due_end_date # NoDate)
    /\ due_date = NoDate

\* Mutant: the start bound is exclusive.
BeforeStartExclusive(due_date, filter_due_start_date) ==
    filter_due_start_date # NoDate /\ due_date <= filter_due_start_date

\* Line 244.
BeforeStart(due_date, filter_due_start_date) ==
    filter_due_start_date # NoDate /\ due_date < filter_due_start_date

\* Line 246.
AfterEnd(due_date, filter_due_end_date) ==
    filter_due_end_date # NoDate /\ due_date > filter_due_end_date

\* Mutant: the label is compared without regard to case.
TagMissingIgnoreCase(task, tag_label) ==
    LET Lower(label) == IF label = "Work" THEN "work" ELSE label
    IN tag_label # NoTag
       /\ Lower(tag_label) \notin {Lower(task.tags[i]) : i \in 1..Len(task.tags)}

\* Lines 249-252 and 264-266.
TagMissing(task, tag_label) ==
    tag_label # NoTag /\ tag_label \notin Range(task.tags)

\* One round of the loop of lines 236-254: TRUE when the task is appended.
KeepUncompleted(task, filter_due_start_date, filter_due_end_date, tag_label) ==
    LET due_date == _parse_due_date(task.dueDate)
    IN /\ task.dict
       /\ ~DueDateMissing(due_date, filter_due_start_date, filter_due_end_date)
       /\ ~BeforeStart(due_date, filter_due_start_date)
       /\ ~AfterEnd(due_date, filter_due_end_date)
       /\ ~TagMissing(task, tag_label)

\* One round of the loop of lines 261-267.
KeepCompleted(task, tag_label) ==
    task.dict /\ ~TagMissing(task, tag_label)

\* Mutant: the loop removes the failing tasks from the list it iterates, so the
\* task behind a removed one is never examined and stays.
RECURSIVE FilterUncompletedInPlace(_, _, _, _)
FilterUncompletedInPlace(tasks, start, end, tag_label) ==
    IF tasks = <<>> THEN <<>>
    ELSE IF KeepUncompleted(Head(tasks), start, end, tag_label)
         THEN <<Head(tasks)>> \o FilterUncompletedInPlace(Tail(tasks), start, end, tag_label)
         ELSE IF Tail(tasks) = <<>> THEN <<>>
              ELSE <<Head(Tail(tasks))>>
                   \o FilterUncompletedInPlace(Tail(Tail(tasks)), start, end, tag_label)

\* Lines 234-254: the loop of the uncompleted branch.
RECURSIVE FilterUncompleted(_, _, _, _)
FilterUncompleted(tasks, start, end, tag_label) ==
    IF tasks = <<>> THEN <<>>
    ELSE LET rest == FilterUncompleted(Tail(tasks), start, end, tag_label)
         IN IF KeepUncompleted(Head(tasks), start, end, tag_label)
            THEN <<Head(tasks)>> \o rest
            ELSE rest

\* Lines 259-269: the loop of the completed branch.
RECURSIVE FilterCompleted(_, _)
FilterCompleted(tasks, tag_label) ==
    IF tasks = <<>> THEN <<>>
    ELSE LET rest == FilterCompleted(Tail(tasks), tag_label)
         IN IF KeepCompleted(Head(tasks), tag_label)
            THEN <<Head(tasks)>> \o rest
            ELSE rest

\* TaskFilterer._filter_task_list.  A status that is neither 'uncompleted' nor
\* 'completed' takes neither branch: only the exact-match filters apply.
_filter_task_list(tasks, status, filters, start, end, tag_label) ==
    LET after_json == _apply_json_filters(tasks, filters)
    IN IF status = "uncompleted"
       THEN FilterUncompleted(after_json, start, end, tag_label)
       ELSE IF status = "completed" /\ tag_label # NoTag
            THEN FilterCompleted(after_json, tag_label)
            ELSE after_json

\* _filter_task_list hands back the very list object it was given (no copy).
ReturnsSameList(status, filters, tag_label) ==
    /\ filters.keys = {}
    /\ status # "uncompleted"
    /\ ~(status = "completed" /\ tag_label # NoTag)

\* ------------------------------------------------------------------------ sort
\* The sort key of line 332.
SortKey(t) ==
    IF ~t.dict THEN 0
    ELSE IF t.priority = MissingPriority THEN DefaultPriority
    ELSE t.priority

\* Comparing a None key with anything is a TypeError; a list of fewer than two
\* items is never compared.
SortRaises(tasks) ==
    /\ Len(tasks) >= 2
    /\ \E i \in 1..Len(tasks) : tasks[i].dict /\ tasks[i].priority = NullPriority

\* Mutant: t goes before the items of its own key, which turns ties around.
RECURSIVE InsertBeforeEqual(_, _)
InsertBeforeEqual(sorted, t) ==
    IF sorted = <<>> THEN <<t>>
    ELSE IF SortKey(Head(sorted)) > SortKey(t)
         THEN <<Head(sorted)>> \o InsertBeforeEqual(Tail(sorted), t)
         ELSE <<t>> \o sorted

\* Insert t behind every item whose key is at least t's: descending, stable.
RECURSIVE InsertByPriority(_, _)
InsertByPriority(sorted, t) ==
    IF sorted = <<>> THEN <<t>>
    ELSE IF SortKey(Head(sorted)) >= SortKey(t)
         THEN <<Head(sorted)>> \o InsertByPriority(Tail(sorted), t)
         ELSE <<t>> \o sorted

RECURSIVE SortFrom(_, _)
SortFrom(tasks, sorted) ==
    IF tasks = <<>> THEN sorted
    ELSE SortFrom(Tail(tasks), InsertByPriority(sorted, Head(tasks)))

\* tasks.sort(key=..., reverse=True): stable, highest priority first.
SortByPriority(tasks) == SortFrom(tasks, <<>>)

\* ------------------------------------------------------ the remote service
\* What one call of a collaborator does: raise, or return None, a list, a single
\* dict, or something of another type.
Raise(exc) == [kind |-> "raise", exc |-> exc, tasks |-> <<>>]
NoneAnswer == [kind |-> "none", exc |-> "", tasks |-> <<>>]
OtherAnswer == [kind |-> "other", exc |-> "", tasks |-> <<>>]
ListAnswer(tasks) == [kind |-> "list", exc |-> "", tasks |-> tasks]
DictAnswer(task) == [kind |-> "dict", exc |-> "", tasks |-> <<task>>]

InboxId == "inbox"
ProjectName(i) ==
    CASE i = 1 -> "p1" [] i = 2 -> "p2" [] i = 3 -> "p3" [] OTHER -> "p4"

\* ticktick_client.state['projects'].
ProjectsState == [i \in 1..NumProjects |-> [id |-> ProjectName(i)]]

\* Lines 69-72 of helpers.py: the ids in the state, and the inbox.
KnownProjectIds == {ProjectsState[i].id : i \in 1..NumProjects} \cup {InboxId}

Priorities == <<0, 1, 3, 5>>
TagLists == << <<>>, <<"work">>, <<"Work", "home">> >>
PriorityOf(i) == Priorities[((i - 1) % Len(Priorities)) + 1]
TagsOf(i) == TagLists[((i - 1) % Len(TagLists)) + 1]

\* The due dates the service holds: none, unreadable ones, every day as a plain
\* date, late in the evening in UTC and early in the morning in Seoul time.
DueTexts ==
    <<NoneStr, EmptyStr, ShortStr, GarbageStr>>
    \o [d \in 1..MaxDay |-> DateStr(d)]
    \o [d \in 1..MaxDay |-> AwareStr(d, 23, 0)]
    \o [d \in 1..MaxDay |-> AwareStr(d, 3, 9)]

DueTasks(p) ==
    [i \in 1..Len(DueTexts) |->
        Task(<<p, i>>, p, 0, PriorityOf(i), TagsOf(i), DueTexts[i], NoneStr)]

\* Records of every shape: a completed one in an uncompleted listing, an item
\* that is no dict, a priority that is None, no priority key at all.
MixedTasks(p) ==
    << Task(<<p, 1>>, p, 0, 5, <<"work">>, DateStr(2), NoneStr),
       Task(<<p, 2>>, p, 2, 5, <<"work", "home">>, DateStr(2), AwareStr(1, 10, 0)),
       NonDictItem(<<p, 3>>),
       Task(<<p, 4>>, p, 0, NullPriority, <<>>, NoneStr, NoneStr),
       Task(<<p, 5>>, p, 0, MissingPriority, <<"Work">>, DateStr(1), NoneStr),
       Task(<<p, 6>>, "elsewhere", 0, 0, <<"work">>, DateStr(MaxDay), NoneStr) >>

CompletedTexts ==
    [d \in 1..MaxDay |-> AwareStr(d, 10, 0)]
    \o [d \in 1..MaxDay |-> AwareStr(d, 23, 0)]
    \o <<NoneStr>>

\* What get_completed may hand back, whatever range it was asked for.
CompletedTasks ==
    [i \in 1..Len(CompletedTexts) |->
        Task(<<"done", i>>, ProjectName(1), 2, PriorityOf(i), TagsOf(i),
             NoneStr, CompletedTexts[i])]
    \o << Task(<<"open", 1>>, InboxId, 0, 3, <<"work">>, DateStr(1), NoneStr) >>

CompletedAnswers ==
    { Raise("ValueError"), Raise("ConnectionError"), Raise("Exception"),
      NoneAnswer, DictAnswer(Head(CompletedTasks)), ListAnswer(CompletedTasks) }

\* A remote service, by name: for each project the answers get_from_project
\* may give, and the answers get_completed may give.
DatesRemote == "dates"
MixedRemote == "mixed"

Service(name) ==
    IF name = DatesRemote
    THEN [projects |-> [p \in KnownProjectIds |->
                          {Raise("Exception"), ListAnswer(DueTasks(p))}],
          completed |-> CompletedAnswers]
    ELSE [projects |-> [p \in KnownProjectIds |->
                          { Raise("Exception"), NoneAnswer, OtherAnswer,
                            DictAnswer(Head(MixedTasks(p))),
                            ListAnswer(MixedTasks(p)) }],
          completed |-> CompletedAnswers]

\* ------------------------------------------------------------------- requests
\* The arguments of one call of ticktick_filter_tasks.
Request(status, filters_json, ds, de, cs, ce, include_time, include_overdue, tag_label, sort_by_priority, tz) ==
    [status |-> status, filters_json |-> filters_json,
     due_start_date_iso |-> ds, due_end_date_iso |-> de,
     completion_start_date_iso |-> cs, completion_end_date_iso |-> ce,
     include_time |-> include_time, include_overdue |-> include_overdue,
     tag_label |-> tag_label, sort_by_priority |-> sort_by_priority, tz |-> tz]

\* 'archived' stands for any string that is neither of the two statuses.
StatusValues == {"uncompleted", "completed", "archived"}

DueBoundTexts == {NoneStr, GarbageStr} \cup {DateStr(d) : d \in Days}
CompletionBoundTexts == {NoneStr, EmptyStr, GarbageStr, DateStr(2), NaiveStr(2, 10)}
FiltersJsonValues ==
    { NoFiltersJson, InvalidFiltersJson, NonObjectFiltersJson,
      FiltersJson("object", {"priority"}, 5, "", <<>>),
      FiltersJson("object", {"priority"}, 0, "", <<>>),
      FiltersJson("object", {"projectId"}, 0, InboxId, <<>>),
      FiltersJson("object", {"tags"}, 0, "", <<"home", "work">>) }

\* Uncompleted queries over every pair of due bounds.
DueRequests ==
    { Request("uncompleted", NoFiltersJson, ds, de, NoneStr, NoneStr, FALSE, io, NoTag, FALSE, tz) :
        ds \in DueBoundTexts, de \in DueBoundTexts, io \in BOOLEAN,
        tz \in {NoTz, "UTC", "Asia/Seoul"} }

\* Completed queries over every pair of completion bounds.
CompletedRequests ==
    { Request("completed", NoFiltersJson, NoneStr, NoneStr, cs, ce, it, TRUE, NoTag, sort, tz) :
        cs \in CompletionBoundTexts, ce \in CompletionBoundTexts,
        it \in BOOLEAN, sort \in BOOLEAN, tz \in TzNames }

\* Queries of every status over the exact-match filters, the tag and the sort.
PropertyRequests ==
    { Request(st, fj, NoneStr, NoneStr, DateStr(1), DateStr(2), FALSE, TRUE, tag, sort, NoTz) :
        st \in StatusValues, fj \in FiltersJsonValues,
        tag \in {NoTag, "work"}, sort \in BOOLEAN }

\* Uncompleted queries for one priority, over tasks of every priority.
PriorityRequests ==
    { Request("uncompleted", FiltersJson("object", {"priority"}, p, "", <<>>), NoneStr, NoneStr, NoneStr, NoneStr, FALSE, TRUE, tag, sort, NoTz) :
        p \in {0, 5}, tag \in {NoTag, "Work"}, sort \in BOOLEAN }

\* Queries with an exact-match filter on the tags, one tag given twice.
TagsRequests ==
    { Request(st, FiltersJson("object", {"tags"}, 0, "", <<"work", "work">>), NoneStr, NoneStr, NoneStr, DateStr(2), FALSE, TRUE, tag, FALSE, NoTz) :
        st \in {"uncompleted", "completed"}, tag \in {NoTag, "work"} }

\* A request together with the service it runs against.
Scenarios ==
    (DueRequests \X {DatesRemote})
    \cup (CompletedRequests \X {DatesRemote})
    \cup (PropertyRequests \X {MixedRemote})
    \cup (PriorityRequests \X {DatesRemote})
    \cup (TagsRequests \X {MixedRemote})

\* The wall clock: a UTC time and the zone of the machine.
UnreadClock == [utc |-> NoneStr, zone |-> NoTz]
Clocks ==
    { [utc |-> AwareStr(d, 20, 0), zone |-> z] :
        d \in 1..(MaxDay - 1), z \in {"UTC", "Asia/Seoul"} }

\* --------------------------------------------------------------------- state
VARIABLES
    pc,                     \* where main() and the request it serves are
    ticktick_client,        \* the name ticktick_client, as helpers.py and
                            \* filter_tools.py imported it, is set (truthy)
    client_global,          \* client.ticktick_client, the global, is set
    auth_calls,             \* authentications made (TickTickClient built)
    client_instance,        \* what initialize_ticktick_client returned to main
    remote,                 \* the service behind the client, by name
    req,                    \* the arguments of the tool call
    clock,                  \* the clock as _get_current_date read it
    parsed_inputs,          \* what _parse_filter_inputs returned
    project_ids,            \* projects the fetch loop has still to visit
    all_tasks,              \* list built by _get_all_tasks_from_ticktick
    get_from_project_calls, \* calls made so far: project and answer, in order
    get_completed_calls,    \* calls made so far: the arguments
    fetched_result,         \* what _fetch_tasks_by_status returned
    tasks,                  \* the list filter() is working on
    exception,              \* exception on its way up to the tool function
    response,               \* what ticktick_filter_tasks returned
    log,                    \* warnings and errors logged
    steps                   \* steps of the pipeline that have run

vars ==
    << pc, ticktick_client, client_global, auth_calls, client_instance, remote,
       req, clock, parsed_inputs, project_ids, all_tasks, get_from_project_calls,
       get_completed_calls, fetched_result, tasks, exception, response, log,
       steps >>

NoParsedInputs ==
    [filters |-> EmptyFilters, filter_due_start_date |-> NoDate,
     filter_due_end_date |-> NoDate, error |-> ""]
NoResult == [kind |-> "none", tasks |-> <<>>, error |-> ""]
ListResult(l) == [kind |-> "list", tasks |-> l, error |-> ""]
\* format_response({"error": msg, "status": "error"}): a JSON string.
ErrorResult(msg) == [kind |-> "error", tasks |-> <<>>, error |-> msg]
\* format_response(tasks): the JSON list.
TasksResponse(l) == [kind |-> "tasks", tasks |-> l, error |-> ""]

Logged(level, event, subject) ==
    [level |-> level, event |-> event, subject |-> subject]

\* The process at the call of main().  helpers.py and filter_tools.py import
\* the name ticktick_client by value (from .client import ticktick_client), so
\* it holds what the global held when they were imported: None when main.py
\* is the script (it imports the tools before main() initializes), the client
\* when the process had initialized the client before it imported them.
Init ==
    /\ \E sc \in Scenarios : req = sc[1] /\ remote = sc[2]
    /\ ticktick_client \in BOOLEAN
    /\ client_global = ticktick_client
    /\ auth_calls = IF ticktick_client THEN 1 ELSE 0
    /\ client_instance = FALSE
    /\ pc = "main"
    /\ clock = UnreadClock
    /\ parsed_inputs = NoParsedInputs
    /\ project_ids = {}
    /\ all_tasks = <<>>
    /\ get_from_project_calls = <<>>
    /\ get_completed_calls = <<>>
    /\ fetched_result = NoResult
    /\ tasks = <<>>
    /\ exception = ""
    /\ response = NoResult
    /\ log = {}
    /\ steps = {}

\* ------------------------------------------------------------------- main
\* How one run of the body of initialize_ticktick_client ends when the global
\* is not set: the credentials are missing (line 21), OAuth2 or TickTickClient
\* raises (line 43), or the client is built (line 40).
InitializationOutcomes == {"no credentials", "raises", "client"}

\* Mutant: the early return of lines 17-19 is gone.
AlreadyInitializedNever(client) == FALSE

\* Line 17: the global holds a client.
AlreadyInitialized(client) == client

\* What initialize_ticktick_client logs at the level of an error.
InitializationLog(outcome) ==
    CASE outcome = "no credentials" ->
            {Logged("error", "credentials not found", "")}
      [] outcome = "raises" -> {Logged("error", "error initializing client", "")}
      [] OTHER -> {}

\* Line 30 of main.py: main() calls client.initialize_ticktick_client, which
\* rebinds the global of client.py and nothing else.
InitializeClient ==
    /\ pc = "main"
    /\ IF AlreadyInitialized(client_global)
       THEN /\ client_instance' = client_global
            /\ UNCHANGED <<client_global, auth_calls, log>>
       ELSE \E outcome \in InitializationOutcomes :
               /\ client_global' = (outcome = "client")
               /\ client_instance' = (outcome = "client")
               /\ auth_calls' = IF outcome = "client" THEN auth_calls + 1 ELSE auth_calls
               /\ log' = log \cup InitializationLog(outcome)
    /\ pc' = "main_check"
    /\ UNCHANGED << ticktick_client, remote, req, clock, parsed_inputs,
                    project_ids, all_tasks, get_from_project_calls,
                    get_completed_calls, fetched_result, tasks, exception,
                    response, steps >>

\* Lines 32-42 of main.py: with a client mcp.run serves (here: one call of
\* ticktick_filter_tasks comes in) or raises at once; without one, and when
\* mcp.run raises, main() ends in sys.exit(1).
MainServe ==
    /\ pc = "main_check"
    /\ IF client_instance
       THEN \E run_raises \in BOOLEAN :
               /\ pc' = IF run_raises THEN "exit" ELSE "entry"
               /\ log' = IF run_raises
                         THEN log \cup {Logged("critical", "server error", "")}
                         ELSE log
       ELSE /\ pc' = "exit"
            /\ log' = log \cup {Logged("error", "server cannot start", "")}
    /\ UNCHANGED << ticktick_client, client_global, auth_calls, client_instance,
                    remote, req, clock, parsed_inputs, project_ids, all_tasks,
                    get_from_project_calls, get_completed_calls, fetched_result,
                    tasks, exception, response, steps >>

\* ---------------------------------------------------------------- entry
\* helpers.require_client, the wrapper around ticktick_filter_tasks.
RequireClient ==
    /\ pc = "entry"
    /\ IF ~ticktick_client
       THEN /\ response' = ErrorResult("TickTick client not initialized.")
            /\ log' = log \cup {Logged("error", "client not initialized", "")}
            /\ pc' = "done"
       ELSE /\ pc' = "parse"
            /\ UNCHANGED <<response, log>>
    /\ UNCHANGED << ticktick_client, client_global, auth_calls,
                    client_instance, remote, req, clock, parsed_inputs,
                    project_ids, all_tasks, get_from_project_calls,
                    get_completed_calls, fetched_result, tasks, exception, steps >>

\* ------------------------------------------------------ _parse_filter_inputs
\* Mutant: the isinstance check of line 123 is gone, any JSON value passes.
FiltersJsonErrorNoTypeCheck(filters_json) ==
    IF filters_json.kind = "invalid" THEN "Invalid JSON format for filters." ELSE ""

\* Lines 118-133: the error of parsing filters_json, "" when there is none.
FiltersJsonError(filters_json) ==
    CASE filters_json.kind = "invalid" -> "Invalid JSON format for filters."
      [] filters_json.kind = "nonobject" ->
            "filters_json must be a JSON object (dictionary)."
      [] OTHER -> ""

\* Lines 111-123: the dict of exact-match filters.
ParsedFilters(filters_json) ==
    IF filters_json.kind = "object" THEN filters_json ELSE EmptyFilters

\* Line 139: a due bound was given (is not None) and neither parsed.
DueBoundsUnparsed(r) ==
    /\ _parse_optional_iso_date(r.due_start_date_iso, r.tz) = NoDate
    /\ _parse_optional_iso_date(r.due_end_date_iso, r.tz) = NoDate
    /\ (r.due_start_date_iso.kind # "none" \/ r.due_end_date_iso.kind # "none")

\* Line 141: no due bound was given at all; today is computed.
NoDueBoundGiven(r) ==
    /\ _parse_optional_iso_date(r.due_start_date_iso, r.tz) = NoDate
    /\ _parse_optional_iso_date(r.due_end_date_iso, r.tz) = NoDate
    /\ r.due_start_date_iso.kind = "none"
    /\ r.due_end_date_iso.kind = "none"

\* Mutant: today is the default whenever neither bound parsed, given or not.
ParsedDueStartDefaultsUnparsed(r, clk) ==
    IF r.status # "uncompleted" THEN NoDate
    ELSE IF /\ _parse_optional_iso_date(r.due_start_date_iso, r.tz) = NoDate
            /\ _parse_optional_iso_date(r.due_end_date_iso, r.tz) = NoDate
            /\ ~r.include_overdue
         THEN _get_current_date(r.tz, clk)
         ELSE _parse_optional_iso_date(r.due_start_date_iso, r.tz)

\* Lines 135-150: filter_due_start_date, with today as the default.
ParsedDueStart(r, clk) ==
    IF r.status # "uncompleted" THEN NoDate
    ELSE IF ~DueBoundsUnparsed(r) /\ NoDueBoundGiven(r) /\ ~r.include_overdue
         THEN _get_current_date(r.tz, clk)
         ELSE _parse_optional_iso_date(r.due_start_date_iso, r.tz)

\* Lines 137 and 150: filter_due_end_date.
ParsedDueEnd(r) ==
    IF r.status # "uncompleted" THEN NoDate
    ELSE _parse_optional_iso_date(r.due_end_date_iso, r.tz)

\* The warnings of _parse_optional_iso_date and _get_current_date.
DateParseLog(date_iso, tz) ==
    IF ~Truthy(date_iso) THEN {}
    ELSE (IF tz # NoTz /\ ~ZoneInfoOk(tz)
          THEN {Logged("warning", "invalid timezone", tz)} ELSE {})
         \cup (IF _parse_optional_iso_date(date_iso, tz) = NoDate
               THEN {Logged("warning", "invalid ISO date", date_iso.kind)} ELSE {})

ParseLog(r) ==
    IF FiltersJsonError(r.filters_json) # ""
    THEN {Logged("warning", "invalid filters_json", r.filters_json.kind)}
    ELSE IF r.status # "uncompleted" THEN {}
    ELSE DateParseLog(r.due_start_date_iso, r.tz)
         \cup DateParseLog(r.due_end_date_iso, r.tz)
         \cup (IF DueBoundsUnparsed(r)
               THEN {Logged("warning", "due bounds unparsed", "")} ELSE {})
         \cup (IF ~DueBoundsUnparsed(r) /\ NoDueBoundGiven(r)
                  /\ r.tz # NoTz /\ ~ZoneInfoOk(r.tz)
               THEN {Logged("warning", "invalid timezone", r.tz)} ELSE {})

\* Step 1 of TaskFilterer.filter: _parse_filter_inputs, and the return of its
\* error through filter() and the tool function.
ParseFilterInputs ==
    /\ pc = "parse"
    /\ steps' = steps \cup {"parse"}
    /\ log' = log \cup ParseLog(req)
    /\ IF FiltersJsonError(req.filters_json) # ""
       THEN /\ parsed_inputs' =
                  [NoParsedInputs EXCEPT !.error = FiltersJsonError(req.filters_json)]
            /\ response' = ErrorResult(FiltersJsonError(req.filters_json))
            /\ pc' = "done"
            /\ UNCHANGED clock
       ELSE /\ \E clk \in Clocks :
                 /\ clock' = IF req.status = "uncompleted"
                                /\ ~DueBoundsUnparsed(req) /\ NoDueBoundGiven(req)
                             THEN clk ELSE clock
                 /\ parsed_inputs' =
                       [filters |-> ParsedFilters(req.filters_json),
                        filter_due_start_date |-> ParsedDueStart(req, clk),
                        filter_due_end_date |-> ParsedDueEnd(req),
                        error |-> ""]
            /\ pc' = "fetch"
            /\ UNCHANGED response
    /\ UNCHANGED << ticktick_client, client_global, auth_calls,
                    client_instance, remote, req, project_ids, all_tasks,
                    get_from_project_calls, get_completed_calls,
                    fetched_result, tasks, exception >>

\* ---------------------------------------------------- _fetch_tasks_by_status
\* Lines 165-171: tz is given and ZoneInfo does not know it.
CompletedTzRejected(r) == r.tz # NoTz /\ ~ZoneInfoOk(r.tz)

\* Mutant: the guard tests 'is None' where the code tests falsiness.
NoCompletionBoundIsNone(r) ==
    /\ r.completion_start_date_iso.kind = "none"
    /\ r.completion_end_date_iso.kind = "none"

\* Mutant: the guard is gone.
NoCompletionBoundNever(r) == FALSE

\* Line 173: neither completion bound is given.
NoCompletionBound(r) ==
    ~Truthy(r.completion_start_date_iso) /\ ~Truthy(r.completion_end_date_iso)

\* Lines 181-190: fromisoformat raises ValueError on a bound that is given.
CompletionBoundInvalid(r) ==
    \/ Truthy(r.completion_start_date_iso)
          /\ ~FromIsoformatOk(r.completion_start_date_iso)
    \/ Truthy(r.completion_end_date_iso)
          /\ ~FromIsoformatOk(r.completion_end_date_iso)

\* The error string the completed branch returns without calling the service,
\* "" when it goes on to the call.
CompletedFetchError(r) ==
    IF CompletedTzRejected(r) THEN "Invalid timezone specified"
    ELSE IF NoCompletionBound(r)
         THEN "At least one of completion_start_date_iso or completion_end_date_iso must be provided when filtering completed tasks."
         ELSE IF CompletionBoundInvalid(r) THEN "Invalid date format"
              ELSE ""

\* Line 193: one call of get_completed, its arguments (None for a bound not
\* given) and its answer.
GetCompletedCall(r, ans) ==
    [start |-> IF Truthy(r.completion_start_date_iso)
               THEN r.completion_start_date_iso ELSE NoneStr,
     end |-> IF Truthy(r.completion_end_date_iso)
             THEN r.completion_end_date_iso ELSE NoneStr,
     full |-> ~r.include_time, tz |-> r.tz, answer |-> ans]

\* Mutant: a failure of get_completed is swallowed into an empty list, the way
\* the per-project fetch treats its failures.
CompletedOutcomeSwallows(ans) ==
    IF ans.kind = "raise" /\ ans.exc = "ValueError" THEN "error" ELSE "list"

\* What becomes of the answer of get_completed: a ValueError is caught at line
\* 206 and returned as an error string, any other exception leaves the
\* function, everything else makes a list.
CompletedOutcome(ans) ==
    IF ans.kind = "raise"
    THEN IF ans.exc = "ValueError" THEN "error" ELSE "raise"
    ELSE "list"

\* Lines 195-201: the list made of what get_completed returned.
CompletedList(ans) == IF ans.kind = "none" THEN <<>> ELSE ans.tasks

\* The completed branch of _fetch_tasks_by_status (lines 163-211), with the one
\* call of get_completed and the return through filter().
FetchCompleted ==
    /\ pc = "fetch"
    /\ req.status = "completed"
    /\ steps' = steps \cup {"fetch"}
    /\ IF CompletedFetchError(req) # ""
       THEN /\ fetched_result' = ErrorResult(CompletedFetchError(req))
            /\ response' = ErrorResult(CompletedFetchError(req))
            /\ log' = log \cup
                  (IF CompletedTzRejected(req)
                   THEN {Logged("warning", "invalid timezone", req.tz)}
                   ELSE IF NoCompletionBound(req) THEN {}
                   ELSE {Logged("warning", "invalid completion date", "")})
            /\ pc' = "done"
            /\ UNCHANGED <<get_completed_calls, tasks, exception>>
       ELSE \E ans \in Service(remote).completed :
            /\ get_completed_calls' =
                  Append(get_completed_calls, GetCompletedCall(req, ans))
            /\ IF CompletedOutcome(ans) = "error"
               THEN /\ fetched_result' = ErrorResult("Invalid date format")
                    /\ response' = ErrorResult("Invalid date format")
                    /\ log' = log \cup
                          {Logged("warning", "invalid completion date", "")}
                    /\ pc' = "done"
                    /\ UNCHANGED <<tasks, exception>>
               ELSE IF CompletedOutcome(ans) = "raise"
               THEN /\ exception' = ans.exc
                    /\ pc' = "except"
                    /\ UNCHANGED <<fetched_result, response, log, tasks>>
               ELSE /\ fetched_result' = ListResult(CompletedList(ans))
                    /\ tasks' = CompletedList(ans)
                    /\ pc' = "filter"
                    /\ UNCHANGED <<response, log, exception>>
    /\ UNCHANGED << ticktick_client, client_global, auth_calls,
                    client_instance, remote, req, clock, parsed_inputs,
                    project_ids, all_tasks, get_from_project_calls >>

\* Mutant: the fetch by projects is not kept to the statuses other than
\* 'completed'.
GetAllTasksStartAnyStatus ==
    /\ pc = "fetch"
    /\ steps' = steps \cup {"fetch"}
    /\ IF ~ticktick_client
       THEN /\ exception' = "ConnectionError"
            /\ pc' = "except"
            /\ UNCHANGED <<project_ids, fetched_result, tasks>>
       ELSE IF KnownProjectIds = {}
       THEN /\ fetched_result' = ListResult(<<>>)
            /\ tasks' = <<>>
            /\ pc' = "filter"
            /\ UNCHANGED <<project_ids, exception>>
       ELSE /\ project_ids' = KnownProjectIds
            /\ pc' = "fetch_loop"
            /\ UNCHANGED <<fetched_result, tasks, exception>>
    /\ all_tasks' = <<>>
    /\ UNCHANGED << ticktick_client, client_global, auth_calls,
                    client_instance, remote, req, clock, parsed_inputs,
                    get_from_project_calls, get_completed_calls, response, log >>

\* helpers._get_all_tasks_from_ticktick up to its loop (lines 46-81), entered
\* for every status but 'completed' (the else of line 212).
GetAllTasksStart ==
    /\ pc = "fetch"
    /\ req.status # "completed"
    /\ steps' = steps \cup {"fetch"}
    /\ IF ~ticktick_client
       THEN /\ exception' = "ConnectionError"
            /\ pc' = "except"
            /\ UNCHANGED <<project_ids, fetched_result, tasks>>
       ELSE IF KnownProjectIds = {}
       THEN /\ fetched_result' = ListResult(<<>>)
            /\ tasks' = <<>>
            /\ pc' = "filter"
            /\ UNCHANGED <<project_ids, exception>>
       ELSE /\ project_ids' = KnownProjectIds
            /\ pc' = "fetch_loop"
            /\ UNCHANGED <<fetched_result, tasks, exception>>
    /\ all_tasks' = <<>>
    /\ UNCHANGED << ticktick_client, client_global, auth_calls,
                    client_instance, remote, req, clock, parsed_inputs,
                    get_from_project_calls, get_completed_calls, response, log >>

\* Lines 86-93: what one answer adds to all_tasks.  An empty list is falsy.
Collected(ans) ==
    IF ans.kind \in {"list", "dict"} THEN ans.tasks ELSE <<>>

\* Lines 92-95: the warning one answer leaves.
FetchProjectLog(project_id, ans) ==
    CASE ans.kind = "raise" -> {Logged("warning", "project fetch failed", project_id)}
      [] ans.kind = "other" -> {Logged("warning", "unexpected data type", project_id)}
      [] OTHER -> {}

\* Mutant: no try/except around the call, a failing project ends the fetch.
FetchProjectAborting ==
    /\ pc = "fetch_loop"
    /\ \E project_id \in project_ids :
       \E ans \in Service(remote).projects[project_id] :
          /\ project_ids' = project_ids \ {project_id}
          /\ get_from_project_calls' =
                Append(get_from_project_calls,
                       [project_id |-> project_id, answer |-> ans])
          /\ all_tasks' = all_tasks \o Collected(ans)
          /\ exception' = IF ans.kind = "raise" THEN ans.exc ELSE exception
          /\ pc' = IF ans.kind = "raise" THEN "except" ELSE pc
    /\ UNCHANGED << ticktick_client, client_global, auth_calls,
                    client_instance, remote, req, clock, parsed_inputs,
                    get_completed_calls, fetched_result, tasks, response,
                    log, steps >>

\* Mutant: all_tasks is assigned the answer where the code extends it, so only
\* the project iterated last is kept.
FetchProjectOverwriting ==
    /\ pc = "fetch_loop"
    /\ \E project_id \in project_ids :
       \E ans \in Service(remote).projects[project_id] :
          /\ project_ids' = project_ids \ {project_id}
          /\ get_from_project_calls' =
                Append(get_from_project_calls,
                       [project_id |-> project_id, answer |-> ans])
          /\ all_tasks' = IF Collected(ans) # <<>> THEN Collected(ans) ELSE all_tasks
          /\ log' = log \cup FetchProjectLog(project_id, ans)
    /\ UNCHANGED << pc, ticktick_client, client_global, auth_calls,
                    client_instance, remote, req, clock, parsed_inputs,
                    get_completed_calls, fetched_result, tasks, exception,
                    response, steps >>

\* One round of the loop of lines 82-96, for a project the set iteration
\* yields next: the call of get_from_project and what is done with its answer.
FetchProject ==
    /\ pc = "fetch_loop"
    /\ \E project_id \in project_ids :
       \E ans \in Service(remote).projects[project_id] :
          /\ project_ids' = project_ids \ {project_id}
          /\ get_from_project_calls' =
                Append(get_from_project_calls,
                       [project_id |-> project_id, answer |-> ans])
          /\ all_tasks' = all_tasks \o Collected(ans)
          /\ log' = log \cup FetchProjectLog(project_id, ans)
    /\ UNCHANGED << pc, ticktick_client, client_global, auth_calls,
                    client_instance, remote, req, clock, parsed_inputs,
                    get_completed_calls, fetched_result, tasks, exception,
                    response, steps >>

\* The end of the loop: return all_tasks (line 99), taken by
\* _fetch_tasks_by_status (lines 213-215) and filter() (lines 316-318).
GetAllTasksReturn ==
    /\ pc = "fetch_loop"
    /\ project_ids = {}
    /\ fetched_result' = ListResult(all_tasks)
    /\ tasks' = all_tasks
    /\ pc' = "filter"
    /\ UNCHANGED << ticktick_client, client_global, auth_calls,
                    client_instance, remote, req, clock, parsed_inputs,
                    project_ids, all_tasks, get_from_project_calls,
                    get_completed_calls, exception, response, log, steps >>

\* ------------------------------------------------------- filter, sort, return
\* Line 83: _apply_json_filters warns of every item that is no dict.
JsonFilterLog(l, filters) ==
    IF filters.keys # {} /\ \E i \in 1..Len(l) : ~l[i].dict
    THEN {Logged("warning", "skipping invalid task data", "")}
    ELSE {}

\* Step 3 of TaskFilterer.filter: _filter_task_list (lines 321-328).
FilterTaskList ==
    /\ pc = "filter"
    /\ steps' = steps \cup {"filter"}
    /\ tasks' = _filter_task_list(tasks, req.status, parsed_inputs.filters,
                                  parsed_inputs.filter_due_start_date,
                                  parsed_inputs.filter_due_end_date,
                                  req.tag_label)
    /\ log' = log \cup JsonFilterLog(tasks, parsed_inputs.filters)
    /\ pc' = "sort"
    /\ UNCHANGED << ticktick_client, client_global, auth_calls,
                    client_instance, remote, req, clock, parsed_inputs,
                    project_ids, all_tasks, get_from_project_calls,
                    get_completed_calls, fetched_result, exception, response >>

\* Step 4 of TaskFilterer.filter (lines 331-335) and the return of the list
\* through the tool function (lines 406-409).  The sort works in place: when
\* the filters copied nothing, it reorders the list the fetch returned.
SortAndReturn ==
    /\ pc = "sort"
    /\ IF req.sort_by_priority /\ SortRaises(tasks)
       THEN /\ steps' = steps \cup {"sort"}
            /\ exception' = "TypeError"
            /\ pc' = "except"
            /\ UNCHANGED <<tasks, fetched_result, response>>
       ELSE /\ steps' = IF req.sort_by_priority THEN steps \cup {"sort"} ELSE steps
            /\ tasks' = IF req.sort_by_priority THEN SortByPriority(tasks) ELSE tasks
            /\ fetched_result' =
                  IF req.sort_by_priority
                     /\ ReturnsSameList(req.status, parsed_inputs.filters, req.tag_label)
                  THEN ListResult(SortByPriority(tasks))
                  ELSE fetched_result
            /\ response' = TasksResponse(tasks')
            /\ pc' = "done"
            /\ UNCHANGED exception
    /\ UNCHANGED << ticktick_client, client_global, auth_calls,
                    client_instance, remote, req, clock, parsed_inputs,
                    project_ids, all_tasks, get_from_project_calls,
                    get_completed_calls, log >>

\* Mutant: the clause 'except Exception' is gone, only ConnectionError is
\* caught.
CaughtConnectionErrorOnly(exc) == exc = "ConnectionError"

\* Lines 411 and 414: 'except ConnectionError' and 'except Exception' catch
\* every exception of the classes that arise here, all below Exception.
Caught(exc) == exc \in {"ConnectionError", "ValueError", "TypeError", "Exception"}

\* The except clauses of ticktick_filter_tasks (lines 411-423); an exception
\* no clause catches leaves the tool function.
HandleException ==
    /\ pc = "except"
    /\ IF Caught(exception)
       THEN /\ response' =
                  IF exception = "ConnectionError"
                  THEN ErrorResult("TickTick client not initialized.")
                  ELSE ErrorResult("Failed to filter tasks due to unexpected error")
            /\ log' = log \cup {Logged("error", "exception in filter_tasks", exception)}
            /\ pc' = "done"
       ELSE /\ pc' = "raised"
            /\ UNCHANGED <<response, log>>
    /\ UNCHANGED << ticktick_client, client_global, auth_calls,
                    client_instance, remote, req, clock, parsed_inputs,
                    project_ids, all_tasks, get_from_project_calls,
                    get_completed_calls, fetched_result, tasks, exception, steps >>

Next ==
    \/ InitializeClient
    \/ MainServe
    \/ RequireClient
    \/ ParseFilterInputs
    \/ FetchCompleted
    \/ GetAllTasksStart
    \/ FetchProject
    \/ GetAllTasksReturn
    \/ FilterTaskList
    \/ SortAndReturn
    \/ HandleException

Spec == Init /\ [][Next]_vars

\* ======================================================================
\* Properties
\* ======================================================================
\* The list the fetch returned, and the list after _filter_task_list.
Fetched == fetched_result.tasks
FilterRan == "filter" \in steps
ValidStatus == req.status \in {"uncompleted", "completed"}

\* d lies in the inclusive range [start, end], an absent bound being open.
InRange(d, start, end) ==
    /\ (start = NoDate \/ d >= start)
    /\ (end = NoDate \/ d <= end)

\* The task is a record that meets every criterion but the date range.
MeetsOtherCriteria(t) ==
    /\ t.dict
    /\ \A key \in parsed_inputs.filters.keys :
          KeyMatches(t, parsed_inputs.filters, key)
    /\ (req.tag_label = NoTag \/ req.tag_label \in Range(t.tags))

HasDate(text) == text.kind \in {"date", "datetime"}

\* C1: for an uncompleted query in a known zone tz, a task whose dueDate
\* carries a UTC offset is kept iff its local date in tz lies within the due
\* bounds: the conversion to tz comes before the date is taken.
C1_LocalDateCompared ==
    (FilterRan /\ req.status = "uncompleted" /\ ZoneInfoOk(req.tz)) =>
        \A i \in 1..Len(Fetched) :
            LET t == Fetched[i]
            IN (MeetsOtherCriteria(t) /\ t.dueDate.kind = "datetime" /\ t.dueDate.aware)
               => (t \in Range(tasks)
                   <=> InRange(LocalDay(t.dueDate, req.tz),
                               parsed_inputs.filter_due_start_date,
                               parsed_inputs.filter_due_end_date))

\* C2: the due range is inclusive at both ends: an uncompleted task with a
\* readable due date d is kept iff (start absent or d >= start) and (end absent
\* or d <= end), d being the date written in dueDate.
C2_InclusiveDueRange ==
    (FilterRan /\ req.status = "uncompleted") =>
        \A i \in 1..Len(Fetched) :
            LET t == Fetched[i]
            IN (MeetsOtherCriteria(t) /\ HasDate(t.dueDate))
               => (t \in Range(tasks)
                   <=> InRange(t.dueDate.day,
                               parsed_inputs.filter_due_start_date,
                               parsed_inputs.filter_due_end_date))

\* Both bounds are set; a task due on the start day and one due on the end day
\* are kept, one due after the end day or before the start day is not.
C2_Witness ==
    /\ FilterRan
    /\ req.status = "uncompleted"
    /\ parsed_inputs.filter_due_start_date # NoDate
    /\ parsed_inputs.filter_due_end_date > parsed_inputs.filter_due_start_date
    /\ \E t \in Range(tasks) : t.dueDate.day = parsed_inputs.filter_due_start_date
    /\ \E t \in Range(tasks) : t.dueDate.day = parsed_inputs.filter_due_end_date
    /\ \E t \in Range(Fetched) :
          /\ HasDate(t.dueDate)
          /\ \/ t.dueDate.day > parsed_inputs.filter_due_end_date
             \/ t.dueDate.day < parsed_inputs.filter_due_start_date
          /\ t \notin Range(tasks)

\* C3: an uncompleted task whose dueDate is absent, empty or unreadable is kept
\* iff no due bound is in effect; with no bound in effect every task is kept
\* whatever its dueDate.
C3_MissingDateNeedsNoBound ==
    (FilterRan /\ req.status = "uncompleted") =>
        \A i \in 1..Len(Fetched) :
            LET t == Fetched[i]
                unbounded == /\ parsed_inputs.filter_due_start_date = NoDate
                             /\ parsed_inputs.filter_due_end_date = NoDate
            IN MeetsOtherCriteria(t) =>
                  /\ ~HasDate(t.dueDate) => (t \in Range(tasks) <=> unbounded)
                  /\ unbounded => t \in Range(tasks)

\* Only an end bound is in effect, tasks dated within it are kept and a task
\* whose dueDate is None is left out.
C3_Witness ==
    /\ FilterRan
    /\ req.status = "uncompleted"
    /\ parsed_inputs.filter_due_start_date = NoDate
    /\ parsed_inputs.filter_due_end_date # NoDate
    /\ tasks # <<>>
    /\ \E t \in Range(Fetched) :
          t.dict /\ t.dueDate.kind = "none" /\ t \notin Range(tasks)

\* C4: every task returned has the completion flag (status = 2) the query
\* asked for.
C4_StatusMatchesQuery ==
    (response.kind = "tasks" /\ ValidStatus) =>
        \A i \in 1..Len(response.tasks) :
            LET t == response.tasks[i]
            IN t.dict => ((t.status = 2) <=> (req.status = "completed"))

\* The lists the calls of get_from_project returned, one after the other.
RECURSIVE Merged(_)
Merged(calls) ==
    IF calls = <<>> THEN <<>>
    ELSE (IF Head(calls).answer.kind \in {"list", "dict"}
          THEN Head(calls).answer.tasks ELSE <<>>)
         \o Merged(Tail(calls))

CallsOf(project_id) ==
    {i \in 1..Len(get_from_project_calls) :
        get_from_project_calls[i].project_id = project_id}

\* C5: the uncompleted fetch calls get_from_project exactly once for each
\* known project, the inbox included, and returns the merged lists; a failing
\* call is skipped: it neither ends the loop nor raises nor makes the fetch
\* return an error.
C5_EveryProjectFetchedOnce ==
    req.status = "uncompleted" =>
        /\ exception \in {"", "TypeError"}
        /\ \A p \in KnownProjectIds : Cardinality(CallsOf(p)) <= 1
        /\ ("fetch" \in steps /\ pc # "fetch_loop") =>
              /\ Cardinality(CallsOf(InboxId)) = 1
              /\ \A p \in KnownProjectIds : Cardinality(CallsOf(p)) = 1
              /\ fetched_result = ListResult(Merged(get_from_project_calls))

\* One project's call failed, another's list is in the result of the fetch.
C5_Witness ==
    /\ req.status = "uncompleted"
    /\ pc = "filter"
    /\ \E i \in 1..Len(get_from_project_calls) :
          get_from_project_calls[i].answer.kind = "raise"
    /\ \E i \in 1..Len(get_from_project_calls) :
          /\ get_from_project_calls[i].answer.kind = "list"
          /\ Range(get_from_project_calls[i].answer.tasks) \subseteq Range(Fetched)
    /\ Fetched # <<>>

\* The request names no completion bound (None or '').
NoCompletionBoundGiven ==
    /\ req.completion_start_date_iso.kind \in {"none", "empty"}
    /\ req.completion_end_date_iso.kind \in {"none", "empty"}

\* C6: get_completed is never called with start and end both None, and is not
\* called at all when no completion bound is given.
C6_CompletedCallIsBounded ==
    /\ \A i \in 1..Len(get_completed_calls) :
          ~(get_completed_calls[i].start.kind = "none"
            /\ get_completed_calls[i].end.kind = "none")
    /\ NoCompletionBoundGiven => get_completed_calls = <<>>

\* get_completed was called with only an end bound.
C6_Witness ==
    /\ Len(get_completed_calls) = 1
    /\ get_completed_calls[1].start.kind = "none"
    /\ HasDate(get_completed_calls[1].end)

\* The request got as far as the fetch: the client is set, filters_json parsed.
ReachedFetch == "fetch" \in steps

C8_CompletedFailureIsFatal ==
    \A i \in 1..Len(get_completed_calls) :
        get_completed_calls[i].answer.kind = "raise" =>
            /\ pc \in {"except", "done"}
            /\ fetched_result.kind # "list"
            /\ "filter" \notin steps
            /\ "sort" \notin steps
            /\ tasks = <<>>
            /\ response.kind # "tasks"
            /\ pc = "done" => response.kind = "error"

\* get_completed raised a ConnectionError and the request ended in an error.
C8_Witness ==
    /\ pc = "done"
    /\ Len(get_completed_calls) = 1
    /\ get_completed_calls[1].answer = Raise("ConnectionError")
    /\ response.kind = "error"

\* The day a completedTime falls on: in the query's zone when the zone is known
\* and the time carries an offset, else as written.
CompletionDay(text, tz) ==
    IF text.aware /\ ZoneInfoOk(tz) THEN LocalDay(text, tz) ELSE text.day

\* C9: every task a completed query returns has a completedTime whose date
\* lies within the completion bounds: the range is applied again to what
\* get_completed returned.
C9_CompletionRangeReapplied ==
    (response.kind = "tasks" /\ req.status = "completed") =>
        \A i \in 1..Len(response.tasks) :
            LET t == response.tasks[i]
            IN t.dict =>
                  /\ HasDate(t.completedTime)
                  /\ InRange(CompletionDay(t.completedTime, req.tz),
                             _parse_optional_iso_date(req.completion_start_date_iso, req.tz),
                             _parse_optional_iso_date(req.completion_end_date_iso, req.tz))

\* C10: a status that is neither 'uncompleted' nor 'completed' ends in an error
\* and no collaborator is called.
C10_InvalidStatusRejected ==
    ~ValidStatus =>
        /\ get_from_project_calls = <<>>
        /\ get_completed_calls = <<>>
        /\ pc = "done" => response.kind = "error"

\* ----------------------------------------------------------------------
NoRemoteCall == get_from_project_calls = <<>> /\ get_completed_calls = <<>>

\* C11: a filters_json that is no valid JSON or no JSON object ends the request
\* with an error response and without any call of the service; in every run a
\* fetch (and every call of the service) comes after a parse that succeeded.
C11_MalformedCriteriaAbort ==
    /\ req.filters_json.kind \in {"invalid", "nonobject"} =>
          /\ "fetch" \notin steps
          /\ NoRemoteCall
          /\ pc = "done" => response.kind = "error"
    /\ ("fetch" \in steps \/ ~NoRemoteCall) =>
          /\ "parse" \in steps
          /\ parsed_inputs.error = ""
          /\ FiltersJsonError(req.filters_json) = ""

\* A request with a JSON array as filters_json has ended in the error of
\* line 124, right after the parse and without a call.
C11_Witness ==
    /\ pc = "done"
    /\ "parse" \in steps
    /\ req.filters_json.kind = "nonobject"
    /\ response = ErrorResult("filters_json must be a JSON object (dictionary).")
    /\ NoRemoteCall

\* A bound string that is given and that its parser cannot read.
UnparseableDue(text, tz) == Truthy(text) /\ _parse_optional_iso_date(text, tz) = NoDate
UnparseableCompletion(text) == Truthy(text) /\ ~FromIsoformatOk(text)

\* The request with every unparseable bound of its own axis left out.
WithoutUnparseableBounds(r) ==
    IF r.status = "uncompleted"
    THEN [r EXCEPT !.due_start_date_iso = IF UnparseableDue(@, r.tz) THEN NoneStr ELSE @,
                   !.due_end_date_iso = IF UnparseableDue(@, r.tz) THEN NoneStr ELSE @]
    ELSE [r EXCEPT !.completion_start_date_iso = IF UnparseableCompletion(@) THEN NoneStr ELSE @,
                   !.completion_end_date_iso = IF UnparseableCompletion(@) THEN NoneStr ELSE @]

HasUnparseableBound(r) == WithoutUnparseableBounds(r) # r

\* C12: an unparseable bound of the query's own axis counts as a bound that was
\* not given.  An uncompleted query is filtered by the due bounds the request
\* without that string gives (at some reading of the clock); a completed query
\* returns an error before its call only if the request without that string
\* does, and calls get_completed with the arguments of that request.
C12_UnparseableBoundIsAbsent ==
    (ValidStatus /\ HasUnparseableBound(req)) =>
        LET r == WithoutUnparseableBounds(req)
        IN /\ (req.status = "uncompleted" /\ "parse" \in steps /\ parsed_inputs.error = "") =>
                 \E clk \in (IF clock = UnreadClock THEN Clocks ELSE {clock}) :
                    /\ parsed_inputs.filter_due_start_date = ParsedDueStart(r, clk)
                    /\ parsed_inputs.filter_due_end_date = ParsedDueEnd(r)
           /\ (req.status = "completed" /\ "fetch" \in steps) =>
                 /\ CompletedFetchError(req) = CompletedFetchError(r)
                 /\ \A i \in 1..Len(get_completed_calls) :
                       get_completed_calls[i] =
                          GetCompletedCall(r, get_completed_calls[i].answer)

\* C13: a timezone name ZoneInfo does not know is not fatal, whatever the
\* status: a request that reached the fetch with such a name ends in an error
\* only if an exception was raised or the same request without tz ends in the
\* same error before its call.
C13_UnknownTzNotFatal ==
    (pc = "done" /\ ReachedFetch /\ ValidStatus
     /\ req.tz # NoTz /\ ~ZoneInfoOk(req.tz) /\ response.kind = "error") =>
        \/ exception # ""
        \/ ~NoRemoteCall
        \/ /\ req.status = "completed"
           /\ CompletedFetchError([req EXCEPT !.tz = NoTz]) # ""

\* A bound of the other axis is given: a completion bound to an uncompleted
\* query, a due bound to a completed one.
WrongAxisBoundGiven(r) ==
    \/ /\ r.status = "uncompleted"
       /\ (r.completion_start_date_iso.kind # "none" \/ r.completion_end_date_iso.kind # "none")
    \/ /\ r.status = "completed"
       /\ (r.due_start_date_iso.kind # "none" \/ r.due_end_date_iso.kind # "none")

\* The request with the bounds of the other axis left out.
WithoutWrongAxisBounds(r) ==
    IF r.status = "uncompleted"
    THEN [r EXCEPT !.completion_start_date_iso = NoneStr, !.completion_end_date_iso = NoneStr]
    ELSE [r EXCEPT !.due_start_date_iso = NoneStr, !.due_end_date_iso = NoneStr]

\* C14: bounds of the other axis change nothing but the log: the parse, the
\* pre-call error and the list after the filter are those of the request
\* without them, and once the parse has run a warning about them is in the log.
C14_WrongAxisIgnoredWithWarning ==
    (ValidStatus /\ WrongAxisBoundGiven(req) /\ "parse" \in steps /\ parsed_inputs.error = "") =>
        LET r == WithoutWrongAxisBounds(req)
        IN /\ parsed_inputs.filter_due_start_date = ParsedDueStart(r, clock)
           /\ parsed_inputs.filter_due_end_date = ParsedDueEnd(r)
           /\ req.status = "completed" => CompletedFetchError(req) = CompletedFetchError(r)
           /\ \E entry \in log :
                 entry.level = "warning" /\ entry.event = "wrong-axis bounds ignored"

\* ----------------------------------------------------------------------
\* The calendar day of the clock reading in the zone of the query, the system
\* zone standing in when the query names none that is known.
Today ==
    LocalDay(clock.utc, IF req.tz # NoTz /\ ZoneInfoOk(req.tz) THEN req.tz ELSE clock.zone)

NoDueBoundSupplied ==
    req.due_start_date_iso.kind = "none" /\ req.due_end_date_iso.kind = "none"

\* C15: an uncompleted query without due bounds and with include_overdue=False
\* is filtered from today (in the zone of the query) on, with no end: nothing
\* due before today and nothing without a due date is returned.  With
\* include_overdue=True no bound is set and the due date removes no task.
C15_DefaultInjection ==
    (req.status = "uncompleted" /\ NoDueBoundSupplied
     /\ "parse" \in steps /\ parsed_inputs.error = "") =>
        IF ~req.include_overdue
        THEN /\ clock \in Clocks
             /\ parsed_inputs.filter_due_start_date = Today
             /\ parsed_inputs.filter_due_end_date = NoDate
             /\ FilterRan =>
                   \A i \in 1..Len(tasks) :
                      HasDate(tasks[i].dueDate) /\ tasks[i].dueDate.day >= Today
        ELSE /\ parsed_inputs.filter_due_start_date = NoDate
             /\ parsed_inputs.filter_due_end_date = NoDate
             /\ FilterRan =>
                   \A i \in 1..Len(Fetched) :
                      MeetsOtherCriteria(Fetched[i]) => Fetched[i] \in Range(tasks)

\* It is the evening of day d in UTC, the system zone, and already day d + 1
\* in Seoul, the zone of the query: the filter starts at d + 1, keeps a task
\* and drops a task due on day d and a task without a due date.
C15_Witness ==
    /\ FilterRan
    /\ req.status = "uncompleted"
    /\ NoDueBoundSupplied
    /\ ~req.include_overdue
    /\ req.tz = "Asia/Seoul"
    /\ clock.zone = "UTC"
    /\ parsed_inputs.filter_due_start_date = clock.utc.day + 1
    /\ tasks # <<>>
    /\ \E t \in Range(Fetched) :
          HasDate(t.dueDate) /\ t.dueDate.day = clock.utc.day /\ t \notin Range(tasks)
    /\ \E t \in Range(Fetched) : ~HasDate(t.dueDate) /\ t \notin Range(tasks)

\* ----------------------------------------------------------------------
\* The task record t satisfies every criterion the query supplies: the keys of
\* filters_json, tag_label and, for an uncompleted query, the due range (a task
\* without a readable due date passing only when no bound is in effect).
SatisfiesCriteria(t) ==
    /\ t.dict
    /\ "projectId" \in parsed_inputs.filters.keys =>
          t.projectId = parsed_inputs.filters.projectId
    /\ "priority" \in parsed_inputs.filters.keys =>
          t.priority = parsed_inputs.filters.priority
    /\ "tags" \in parsed_inputs.filters.keys =>
          Range(t.tags) = Range(parsed_inputs.filters.tags)
    /\ req.tag_label # NoTag => req.tag_label \in Range(t.tags)
    /\ req.status = "uncompleted" =>
          IF HasDate(t.dueDate)
          THEN InRange(t.dueDate.day, parsed_inputs.filter_due_start_date,
                       parsed_inputs.filter_due_end_date)
          ELSE /\ parsed_inputs.filter_due_start_date = NoDate
               /\ parsed_inputs.filter_due_end_date = NoDate

IsRecord(t) == t.dict

\* C16: a request of either status without sort_by_priority returns exactly the
\* fetched task records that satisfy every supplied criterion, in fetch order,
\* and nothing that was not fetched.
C16_ExactSubsequence ==
    (pc = "done" /\ response.kind = "tasks" /\ ValidStatus /\ ~req.sort_by_priority) =>
        /\ SelectSeq(response.tasks, IsRecord) = SelectSeq(Fetched, SatisfiesCriteria)
        /\ Range(response.tasks) \subseteq Range(Fetched)

\* A request with a priority criterion and a tag has returned two tasks or
\* more, and fewer records than were fetched.
C16_Witness ==
    /\ pc = "done"
    /\ response.kind = "tasks"
    /\ ValidStatus
    /\ ~req.sort_by_priority
    /\ parsed_inputs.filters.keys = {"priority"}
    /\ req.tag_label # NoTag
    /\ Len(response.tasks) >= 2
    /\ Len(response.tasks) < Len(SelectSeq(Fetched, IsRecord))

\* ----------------------------------------------------------------------
\* The list the collaborators handed over, read off the record of their calls,
\* and the list _filter_task_list makes of it: the matches before the sort.
OriginalFetched ==
    IF req.status = "completed"
    THEN (IF get_completed_calls = <<>> THEN <<>>
          ELSE CompletedList(get_completed_calls[1].answer))
    ELSE Merged(get_from_project_calls)

PreSort ==
    _filter_task_list(OriginalFetched, req.status, parsed_inputs.filters,
                      parsed_inputs.filter_due_start_date,
                      parsed_inputs.filter_due_end_date, req.tag_label)

Occurrences(seq, t) == Cardinality({i \in 1..Len(seq) : seq[i] = t})

\* C17: with sort_by_priority the returned sequence is a permutation of the
\* filtered matches, its priorities (0 for a task without one) never increase,
\* and two matches of equal priority keep the order they had before the sort.
C17_StableDescendingSort ==
    (pc = "done" /\ response.kind = "tasks" /\ req.sort_by_priority) =>
        LET out == response.tasks
            pre == PreSort
        IN /\ Len(out) = Len(pre)
           /\ \A t \in Range(pre) \cup Range(out) :
                 Occurrences(out, t) = Occurrences(pre, t)
           /\ \A i \in 1..(Len(out) - 1) : SortKey(out[i]) >= SortKey(out[i + 1])
           /\ \A i, j \in 1..Len(pre) :
                 (i < j /\ SortKey(pre[i]) = SortKey(pre[j])) =>
                     \E k, l \in 1..Len(out) :
                        k < l /\ out[k] = pre[i] /\ out[l] = pre[j]

\* The sort has moved a task forward past one of lower priority, and two tasks
\* of one priority stand in the result.
C17_Witness ==
    /\ pc = "done"
    /\ response.kind = "tasks"
    /\ req.sort_by_priority
    /\ response.tasks # PreSort
    /\ \E i, j \in 1..Len(response.tasks) :
          i < j /\ SortKey(response.tasks[i]) = SortKey(response.tasks[j])
    /\ \E i, j \in 1..Len(response.tasks) :
          SortKey(response.tasks[i]) > SortKey(response.tasks[j])

\* ----------------------------------------------------------------------
\* The due range of an uncompleted query lets the record t through.
DueCriterionHolds(t) ==
    req.status = "uncompleted" =>
        IF HasDate(t.dueDate)
        THEN InRange(t.dueDate.day, parsed_inputs.filter_due_start_date,
                     parsed_inputs.filter_due_end_date)
        ELSE /\ parsed_inputs.filter_due_start_date = NoDate
             /\ parsed_inputs.filter_due_end_date = NoDate

PriorityZeroAsked ==
    "priority" \in parsed_inputs.filters.keys /\ parsed_inputs.filters.priority = 0

\* C18: a priority criterion of 0 selects: after the filter every task left is
\* a record whose priority is 0 (none of priority 1, 3 or 5, none whose
\* priority is null or missing), and every fetched record of priority 0 that
\* meets the tag and the due range is left.
C18_PriorityZeroIsTarget ==
    (FilterRan /\ PriorityZeroAsked) =>
        /\ Range(tasks) \subseteq Range(OriginalFetched)
        /\ \A i \in 1..Len(OriginalFetched) :
              LET t == OriginalFetched[i]
              IN /\ t \in Range(tasks) => (t.dict /\ t.priority = 0)
                 /\ (t.dict /\ t.priority = 0
                     /\ (req.tag_label = NoTag \/ req.tag_label \in Range(t.tags))
                     /\ DueCriterionHolds(t))
                    => t \in Range(tasks)

\* Records of priority 5, of null priority and without a priority were fetched
\* next to one of priority 0; the filter has left tasks, and none of those.
C18_Witness ==
    /\ FilterRan
    /\ PriorityZeroAsked
    /\ tasks # <<>>
    /\ \A p \in {5, NullPriority, MissingPriority} :
          \E t \in Range(OriginalFetched) :
             t.dict /\ t.priority = p /\ t \notin Range(tasks)

\* ----------------------------------------------------------------------
\* The record t holds what every key of filters_json asks for.
JsonCriteriaHold(t) ==
    /\ "projectId" \in parsed_inputs.filters.keys =>
          t.projectId = parsed_inputs.filters.projectId
    /\ "priority" \in parsed_inputs.filters.keys =>
          t.priority = parsed_inputs.filters.priority
    /\ "tags" \in parsed_inputs.filters.keys =>
          Range(t.tags) = Range(parsed_inputs.filters.tags)

\* C19: for both statuses, a fetched record that meets the other criteria is
\* kept iff tag_label is absent or is, letter for letter, one of its tags.
C19_TagMembership ==
    (FilterRan /\ ValidStatus) =>
        \A i \in 1..Len(OriginalFetched) :
            LET t == OriginalFetched[i]
            IN (t.dict /\ JsonCriteriaHold(t) /\ DueCriterionHolds(t)) =>
                  (t \in Range(tasks)
                   <=> (req.tag_label = NoTag
                        \/ \E k \in 1..Len(t.tags) : t.tags[k] = req.tag_label))

\* A completed query for the tag 'work' has kept a task tagged 'work' and
\* dropped one tagged 'Work' and 'home' and one without tags.
C19_Witness ==
    /\ FilterRan
    /\ req.status = "completed"
    /\ req.tag_label = "work"
    /\ \E t \in Range(tasks) : "work" \in Range(t.tags)
    /\ \E t \in Range(OriginalFetched) :
          t.dict /\ "Work" \in Range(t.tags) /\ t \notin Range(tasks)
    /\ \E t \in Range(OriginalFetched) :
          t.dict /\ t.tags = <<>> /\ t \notin Range(tasks)

\* ----------------------------------------------------------------------
\* C20: the filter step is idempotent: applied with the same criteria to the
\* list it has made, _filter_task_list returns that list, element for element.
C20_FilterIdempotent ==
    FilterRan =>
        _filter_task_list(tasks, req.status, parsed_inputs.filters,
                          parsed_inputs.filter_due_start_date,
                          parsed_inputs.filter_due_end_date, req.tag_label) = tasks

\* The filter of an uncompleted query has just run under a due bound; it kept
\* two tasks or more and removed some.
C20_Witness ==
    /\ pc = "sort"
    /\ FilterRan
    /\ req.status = "uncompleted"
    /\ parsed_inputs.filter_due_start_date # NoDate
    /\ Len(tasks) >= 2
    /\ Len(tasks) < Len(Fetched)

\* ----------------------------------------------------------------------
\* C21: the pipeline leaves its input alone: when the request has returned, the
\* list the fetch handed back holds the elements the collaborators returned, in
\* the order they returned them, sort_by_priority or not.
C21_InputNotMutated ==
    (pc = "done" /\ fetched_result.kind = "list") =>
        fetched_result.tasks = OriginalFetched

\* An item of the fetched list that is no task record is missing from the
\* returned list.
InvalidItemSkipped ==
    \E i \in 1..Len(OriginalFetched) :
        ~OriginalFetched[i].dict /\ OriginalFetched[i] \notin Range(response.tasks)

\* C22: a request that returns a list has logged every omission: a warning for
\* each project whose fetch raised, and a warning when an item that is no task
\* record was skipped.
C22_OmissionsLogged ==
    (pc = "done" /\ response.kind = "tasks") =>
        /\ \A i \in 1..Len(get_from_project_calls) :
              get_from_project_calls[i].answer.kind = "raise" =>
                 Logged("warning", "project fetch failed",
                        get_from_project_calls[i].project_id) \in log
        /\ InvalidItemSkipped =>
              \E entry \in log :
                 entry.level = "warning" /\ entry.event = "skipping invalid task data"

\* ----------------------------------------------------------------------
\* The known projects in one fixed order, and the list the fetch would have
\* made had it called them in that order and got the answers it did get.
CanonicalOrder == <<InboxId>> \o [i \in 1..NumProjects |-> ProjectName(i)]

AnswerOf(project_id) ==
    get_from_project_calls[CHOOSE i \in CallsOf(project_id) : TRUE].answer

RECURSIVE CanonicalFrom(_)
CanonicalFrom(order) ==
    IF order = <<>> THEN <<>>
    ELSE Collected(AnswerOf(Head(order))) \o CanonicalFrom(Tail(order))

CanonicalFetched == CanonicalFrom(CanonicalOrder)

CanonicalFiltered ==
    _filter_task_list(CanonicalFetched, req.status, parsed_inputs.filters,
                      parsed_inputs.filter_due_start_date,
                      parsed_inputs.filter_due_end_date, req.tag_label)

PrioritiesAlong(seq) == [i \in 1..Len(seq) |-> SortKey(seq[i])]

AllProjectsCalled == \A p \in KnownProjectIds : CallsOf(p) # {}

\* C23: whatever the order of the per-project calls, an uncompleted request
\* collects and returns the tasks it would in the fixed order: the same set of
\* candidates, the same set of returned tasks, a list or an error alike, and
\* under sort_by_priority the same sequence of priorities.
C23_FetchOrderIrrelevant ==
    (pc = "done" /\ req.status = "uncompleted" /\ AllProjectsCalled) =>
        /\ Range(Fetched) = Range(CanonicalFetched)
        /\ response.kind = "tasks" <=>
              ~(req.sort_by_priority /\ SortRaises(CanonicalFiltered))
        /\ response.kind = "tasks" =>
              /\ Range(response.tasks) = Range(CanonicalFiltered)
              /\ Len(response.tasks) = Len(CanonicalFiltered)
              /\ req.sort_by_priority =>
                    PrioritiesAlong(response.tasks)
                       = PrioritiesAlong(SortByPriority(CanonicalFiltered))

\* The calls were made in another order than the fixed one, both returned
\* tasks, and the sorted result holds tasks of different priorities.
C23_Witness ==
    /\ pc = "done"
    /\ req.status = "uncompleted"
    /\ AllProjectsCalled
    /\ req.sort_by_priority
    /\ response.kind = "tasks"
    /\ get_from_project_calls[1].project_id # InboxId
    /\ \A i \in 1..Len(get_from_project_calls) :
          get_from_project_calls[i].answer.kind = "list"
    /\ Merged(get_from_project_calls) # CanonicalFetched
    /\ \E i, j \in 1..Len(response.tasks) :
          SortKey(response.tasks[i]) > SortKey(response.tasks[j])

\* ----------------------------------------------------------------------
\* The guard of the tool call has been passed or has turned the call away.
GuardDone == pc \notin {"main", "main_check", "exit", "entry"}

ClientNotInitialized == ErrorResult("TickTick client not initialized.")

\* C24: the guard stands at the entry and follows the client: with the global
\* client not initialized the request is answered with an error at once and no
\* step of the pipeline runs and no collaborator is called; with the client
\* initialized the request goes on into the pipeline, to the parse.
C24_ClientGuardAtEntry ==
    GuardDone =>
        IF client_global
        THEN pc = "parse" \/ "parse" \in steps
        ELSE /\ pc = "done"
             /\ response = ClientNotInitialized
             /\ steps = {}
             /\ NoRemoteCall

\* ----------------------------------------------------------------------
\* C25: the status picks the fetch, and the two fetches exclude each other: an
\* uncompleted request never calls get_completed, a completed request calls it
\* once at most and never calls get_from_project.
C25_FetchStrategiesExclusive ==
    /\ req.status = "uncompleted" => get_completed_calls = <<>>
    /\ req.status = "completed" =>
          /\ Len(get_completed_calls) <= 1
          /\ get_from_project_calls = <<>>

\* A completed request has returned the list of its one call of get_completed.
C25_Witness ==
    /\ pc = "done"
    /\ req.status = "completed"
    /\ Len(get_completed_calls) = 1
    /\ get_from_project_calls = <<>>
    /\ response.kind = "tasks"
    /\ response.tasks # <<>>

\* ----------------------------------------------------------------------
\* A due bound string was supplied and neither due bound can be read.
DueBoundsSuppliedUnreadable ==
    /\ ~NoDueBoundSupplied
    /\ \A text \in {req.due_start_date_iso, req.due_end_date_iso} :
          text.kind \notin {"date", "datetime"}

\* C26: an uncompleted query with include_overdue=False whose due bounds were
\* supplied but are unreadable gets no start=today, and no due-date filtering:
\* the clock is not read, both bounds stay absent, and every fetched record
\* that meets the other criteria is kept, overdue or undated; the same query
\* with no due bound supplied would start at today.
C26_UnparsedBoundsSuppressDefault ==
    (req.status = "uncompleted" /\ ~req.include_overdue /\ DueBoundsSuppliedUnreadable
     /\ "parse" \in steps /\ parsed_inputs.error = "") =>
        /\ clock = UnreadClock
        /\ parsed_inputs.filter_due_start_date = NoDate
        /\ parsed_inputs.filter_due_end_date = NoDate
        /\ \A clk \in Clocks :
              ParsedDueStart(WithoutUnparseableBounds(req), clk) = _get_current_date(req.tz, clk)
        /\ FilterRan =>
              \A i \in 1..Len(OriginalFetched) :
                 LET t == OriginalFetched[i]
                 IN (t.dict /\ JsonCriteriaHold(t)
                     /\ (req.tag_label = NoTag \/ req.tag_label \in Range(t.tags)))
                    => t \in Range(tasks)

\* The filter of such a query has kept a task due on day 1 and a task without
\* a due date.
C26_Witness ==
    /\ FilterRan
    /\ req.status = "uncompleted"
    /\ ~req.include_overdue
    /\ DueBoundsSuppliedUnreadable
    /\ \E t \in Range(tasks) : HasDate(t.dueDate) /\ t.dueDate.day = 1
    /\ \E t \in Range(tasks) : ~HasDate(t.dueDate)

\* ----------------------------------------------------------------------
\* C27: the tool call never ends by raising: every exception on its way up
\* (from get_completed, from the sort, the ConnectionError of the fetch by
\* projects) is caught by the tool function, and a call that has ended has
\* returned the list of tasks or, after every exception, an error payload.
C27_AlwaysReturnsResponse ==
    /\ pc # "raised"
    /\ exception # "" => pc \in {"except", "done"}
    /\ pc = "done" =>
          /\ response.kind \in {"tasks", "error"}
          /\ exception # "" => response.kind = "error"

\* The sort raised a TypeError and the call has returned an error payload.
C27_Witness ==
    /\ pc = "done"
    /\ exception = "TypeError"
    /\ "sort" \in steps
    /\ response.kind = "error"

\* ----------------------------------------------------------------------
\* The priority a task sorts by when one lacking a priority counts as 0.
PriorityOrZero(t) ==
    IF ~t.dict \/ t.priority \in {MissingPriority, NullPriority} THEN 0 ELSE t.priority

\* C28: the sort stands a task without a priority field and a task whose
\* priority is null: a request with sort_by_priority whose sort has run
\* returns every match, in an order in which the priorities, 0 for such a
\* task, never increase; it does not end in an error.
C28_SortToleratesNoPriority ==
    (pc = "done" /\ req.sort_by_priority /\ "sort" \in steps) =>
        /\ response.kind = "tasks"
        /\ Len(response.tasks) = Len(PreSort)
        /\ Range(response.tasks) = Range(PreSort)
        /\ \A i \in 1..(Len(response.tasks) - 1) :
              PriorityOrZero(response.tasks[i]) >= PriorityOrZero(response.tasks[i + 1])

\* ----------------------------------------------------------------------
\* The tags of t and the tags filters_json asks for are the same set.
SameTagSet(t) ==
    {t.tags[k] : k \in 1..Len(t.tags)}
       = {parsed_inputs.filters.tags[k] : k \in 1..Len(parsed_inputs.filters.tags)}

\* C29: with a 'tags' key in filters_json a task is kept only if its tags and
\* the given tags are the same set, whatever their order and repetitions (a
\* task with more tags or with fewer is dropped), and every fetched record of
\* that set that meets the other criteria is kept.
C29_TagsFilterIsSetEquality ==
    (FilterRan /\ ValidStatus /\ "tags" \in parsed_inputs.filters.keys) =>
        \A i \in 1..Len(OriginalFetched) :
            LET t == OriginalFetched[i]
            IN /\ t \in Range(tasks) => (t.dict /\ SameTagSet(t))
               /\ (t.dict /\ SameTagSet(t) /\ DueCriterionHolds(t)
                   /\ (req.tag_label = NoTag \/ req.tag_label \in Range(t.tags)))
                  => t \in Range(tasks)

\* The filter asks for 'work' twice: a task tagged 'work' once is kept, a task
\* tagged 'work' and 'home' and a task without tags are dropped.
C29_Witness ==
    /\ FilterRan
    /\ parsed_inputs.filters.keys = {"tags"}
    /\ parsed_inputs.filters.tags = <<"work", "work">>
    /\ \E t \in Range(tasks) : t.tags = <<"work">>
    /\ \E t \in Range(OriginalFetched) :
          t.dict /\ t.tags = <<"work", "home">> /\ t \notin Range(tasks)
    /\ \E t \in Range(OriginalFetched) :
          t.dict /\ t.tags = <<>> /\ t \notin Range(tasks)

\* ----------------------------------------------------------------------
\* initialize_ticktick_client has returned to main().
Initialized == pc \notin {"main"}

\* One of the two failures of the initialization has been logged.
InitializationFailed ==
    \E outcome \in {"no credentials", "raises"} : InitializationLog(outcome) \subseteq log

\* main() has handed the process to mcp.run, which serves.
Serving == pc \notin {"main", "main_check", "exit"}

\* C30: the global client is set only after an authentication that succeeded,
\* and there is never a second one: the call on an initialized client returns
\* the client it found.  An initialization that failed leaves the global unset
\* and returns nothing.  main() serves only with the client the initialization
\* returned; without one it exits and no step of a request has run.
C30_ClientLifecycle ==
    /\ client_global => auth_calls = 1
    /\ ~client_global => auth_calls = 0
    /\ Initialized => client_instance = client_global
    /\ InitializationFailed => (~client_global /\ ~client_instance)
    /\ Serving => (client_instance /\ client_global)
    /\ (Initialized /\ pc # "main_check" /\ ~client_instance) =>
          /\ pc = "exit"
          /\ steps = {}
          /\ response = NoResult
          /\ get_from_project_calls = <<>>

\* The global was set when main() called the initialization: it returned the
\* client without a second authentication and main() serves.
C30_Witness ==
    /\ Serving
    /\ client_instance
    /\ auth_calls = 1
    /\ ticktick_client
    /\ log = {}

====
